---- MODULE Spec2Model ----
(***************************************************************************)
(* Budget engine of wealth-pulse-api: the plan store, the transaction      *)
(* store and the FX rate cache, with generateBudgetPlan, logTransaction    *)
(* and the two POST routes that reach them.                                *)
(*                                                                         *)
(* Numbers.  The code computes in IEEE doubles.  The model computes in     *)
(* integers and draws its inputs from a grid on which every division the   *)
(* code performs is exact (incomes are multiples of 6000, minimum          *)
(* payments multiples of 5, amounts multiples of 100), so the integer      *)
(* result is the real-number result.  An FX rate is an integer number of   *)
(* thousandths (RateScale): 3.67 is 3670, the identity rate 1 is 1000.     *)
(*                                                                         *)
(* Objects.  A plan is a JavaScript object reached by reference: `plans`   *)
(* is the heap of plan objects, addressed by the plan's uuid, and          *)
(* `budgetPlans` maps a key to the address of the plan stored under it.    *)
(***************************************************************************)
EXTENDS Integers, Sequences, FiniteSets, TLC

VARIABLES
    budgetPlans,   \* Map<string, MonthlyBudgetPlan>: key -> address of the plan
    plans,         \* the plan objects: address (the plan's uuid) -> plan
    transactions,  \* Map<string, Transaction>: transaction id -> transaction
    fxRateCache,   \* Map<string, FxRate>: "FROM_TO" -> [rate, timestamp]
    now,           \* Date.now(), in milliseconds
    uuidCount,     \* number of uuids handed out by uuidv4 so far
    lastCall,      \* the last completed call: its name, arguments and return value
    calls          \* the logTransaction calls in flight (overlapping callers)

vars == <<budgetPlans, plans, transactions, fxRateCache, now, uuidCount, lastCall, calls>>

----------------------------------------------------------------------------
(* Bounds of the model *)

\* number of service or route calls in one behaviour
MaxOps == 3
\* number of debts in one planning request
MaxDebts == 2

----------------------------------------------------------------------------
(* Program constants *)

\* thousandths: the unit in which the model writes an FX rate
RateScale == 1000
FreshnessMs == 3600000

BucketTypes == {"NEEDS", "WANTS", "SAVINGS", "DEBT"}

DEFAULT_CATEGORIES ==
    [NEEDS   |-> <<"rent", "utilities", "groceries", "transport", "insurance", "healthcare">>,
     WANTS   |-> <<"dining_out", "entertainment", "shopping", "subscriptions", "hobbies", "travel">>,
     SAVINGS |-> <<"emergency_fund", "investments", "retirement", "goals">>,
     DEBT    |-> <<"credit_card", "home_loan", "personal_loan", "car_loan", "other_debt">>]

DEFAULT_BUDGET_RULES ==
    [buckets |-> [needs |-> 50, wants |-> 20, savings |-> 15, debt |-> 15],
     minSavingsPercent |-> 10,
     minDebtPercent |-> 5,
     debtStrategy |-> "avalanche"]

\* DEFAULT_RATES, in thousandths
DEFAULT_RATES ==
    [USD_AED |-> 3670, INR_AED |-> 44, EUR_AED |-> 3980, GBP_AED |-> 4640,
     AED_USD |-> 270, AED_INR |-> 22730, AED_EUR |-> 250, AED_GBP |-> 220,
     USD_INR |-> 83500, INR_USD |-> 12]

----------------------------------------------------------------------------
(* Helpers *)

Range(s) == {s[i] : i \in DOMAIN s}

RECURSIVE SumSeq(_)
SumSeq(s) == IF s = <<>> THEN 0 ELSE Head(s) + SumSeq(Tail(s))

Min(a, b) == IF a <= b THEN a ELSE b

\* a / b as a fraction with a positive denominator (b # 0)
Ratio(a, b) == IF b > 0 THEN <<a, b>> ELSE <<-a, -b>>
\* r > n/d and r >= n/d, for d > 0
RatioGT(r, n, d) == r[1] * d > n * r[2]
RatioGE(r, n, d) == r[1] * d >= n * r[2]

\* Math.round(a / b * 100) for b # 0: floor(100a/b + 1/2)
RoundPercent(a, b) ==
    LET r == Ratio(a, b) IN (200 * r[1] + r[2]) \div (2 * r[2])

calculateStatus_OverAtEqual(spent, planned) ==
    IF planned = 0 THEN "UNDER"
    ELSE LET ratio == Ratio(spent, planned) IN
         IF RatioGE(ratio, 1, 1) THEN "OVER"
         ELSE IF RatioGE(ratio, 4, 5) THEN "NEAR_LIMIT"
         ELSE "UNDER"

calculateStatus(spent, planned) ==
    IF planned = 0 THEN "UNDER"
    ELSE LET ratio == Ratio(spent, planned) IN
         IF RatioGT(ratio, 1, 1) THEN "OVER"
         ELSE IF RatioGE(ratio, 4, 5) THEN "NEAR_LIMIT"
         ELSE "UNDER"

getPlanKey(userId, month) == userId \o "_" \o month

getCacheKey(from, to) == from \o "_" \o to

storePlan_KeepFirst(store, key, id) == store @@ (key :> id)

\* budgetPlans.set(key, plan)
storePlan(store, key, id) == (key :> id) @@ store

----------------------------------------------------------------------------
(* FX service *)

DefaultRate_NoIdentity(cacheKey) ==
    IF cacheKey \in DOMAIN DEFAULT_RATES THEN DEFAULT_RATES[cacheKey] ELSE 0

\* DEFAULT_RATES[cacheKey] || 1
DefaultRate(cacheKey) ==
    IF cacheKey \in DOMAIN DEFAULT_RATES /\ DEFAULT_RATES[cacheKey] # 0
    THEN DEFAULT_RATES[cacheKey] ELSE RateScale

\* The provider's answer to one outbound call: ok is FALSE for a network
\* error, a non-ok response or a malformed payload; otherwise rate is the
\* payload's rates[to] in thousandths, 0 when the payload does not list the
\* target currency.
ProviderFail == [ok |-> FALSE, rate |-> 0]

\* fetchFxRate after the provider answered: the rate it caches and returns
fetchCompleted(cache, t, from, to, live) ==
    LET cacheKey == getCacheKey(from, to)
        rate == [from |-> from, to |-> to,
                 rate |-> IF live.ok /\ live.rate # 0 THEN live.rate
                          ELSE DefaultRate(cacheKey),
                 timestamp |-> t]
    IN [fxRate |-> rate, cache |-> (cacheKey :> rate) @@ cache, outbound |-> TRUE]

fetchStarted_FreshAtHour(cache, t, from, to) ==
    LET cacheKey == getCacheKey(from, to)
        same     == [from |-> from, to |-> to, rate |-> RateScale, timestamp |-> t]
    IN  IF cacheKey \in DOMAIN cache /\ t - cache[cacheKey].timestamp <= FreshnessMs
        THEN [fxRate |-> cache[cacheKey], cache |-> cache, outbound |-> FALSE]
        ELSE IF from = to
        THEN [fxRate |-> same, cache |-> (cacheKey :> same) @@ cache, outbound |-> FALSE]
        ELSE [fxRate |-> same, cache |-> cache, outbound |-> TRUE]

\* fetchFxRate up to its outbound call: a fresh cached entry or the
\* same-currency rate is returned at once (outbound FALSE); otherwise the
\* provider is called and fxRate is not known yet
fetchStarted(cache, t, from, to) ==
    LET cacheKey == getCacheKey(from, to)
        same     == [from |-> from, to |-> to, rate |-> RateScale, timestamp |-> t]
    IN  IF cacheKey \in DOMAIN cache /\ t - cache[cacheKey].timestamp < FreshnessMs
        THEN [fxRate |-> cache[cacheKey], cache |-> cache, outbound |-> FALSE]
        ELSE IF from = to
        THEN [fxRate |-> same, cache |-> (cacheKey :> same) @@ cache, outbound |-> FALSE]
        ELSE [fxRate |-> same, cache |-> cache, outbound |-> TRUE]

\* fetchFxRate run to completion: the rate it returns, the cache it leaves,
\* and whether it called the provider
fetchFxRate(cache, t, from, to, live) ==
    IF fetchStarted(cache, t, from, to).outbound
    THEN fetchCompleted(cache, t, from, to, live)
    ELSE fetchStarted(cache, t, from, to)

\* createMoney's result for the rate convertCurrency obtained
moneyAt(amount, currency, fxRate) ==
    [amount |-> amount, currency |-> currency,
     baseAmount |-> (amount * fxRate.rate) \div RateScale,
     fxRate |-> fxRate.rate]

\* convertCurrency and createMoney: the Money object, the cache fetchFxRate
\* leaves, and whether the provider was called
createMoney(cache, t, amount, currency, baseCurrency, live) ==
    LET fx == fetchFxRate(cache, t, currency, baseCurrency, live) IN
    [money |-> moneyAt(amount, currency, fx.fxRate),
     cache |-> fx.cache, outbound |-> fx.outbound]

----------------------------------------------------------------------------
(* Budget generation *)

\* a Money literal in the base currency: {amount: x, baseAmount: x, fxRate: 1}
BaseMoney(x, baseCurrency) ==
    [amount |-> x, currency |-> baseCurrency, baseAmount |-> x, fxRate |-> RateScale]

createBucket(type, planned, baseCurrency, categoryNames) ==
    LET perCategory == planned \div Len(categoryNames) IN
    [type |-> type,
     planned |-> BaseMoney(planned, baseCurrency),
     spent |-> BaseMoney(0, baseCurrency),
     remaining |-> BaseMoney(planned, baseCurrency),
     status |-> "UNDER",
     categories |-> [name \in Range(categoryNames) |->
                        [name |-> name, planned |-> perCategory, spent |-> 0,
                         remaining |-> perCategory, status |-> "UNDER"]]]

debtCmp_Reversed(strategy, a, b) ==
    IF strategy = "snowball"
    THEN b.outstandingPrincipal - a.outstandingPrincipal
    ELSE a.interestRateAnnual - b.interestRateAnnual

\* the two comparators handed to Array.prototype.sort
debtCmp(strategy, a, b) ==
    IF strategy = "snowball" THEN a.outstandingPrincipal - b.outstandingPrincipal
    ELSE b.interestRateAnnual - a.interestRateAnnual

\* Array.prototype.sort (stable): d goes before the first element it compares
\* less than
RECURSIVE InsertSorted(_, _, _)
InsertSorted(d, s, strategy) ==
    IF s = <<>> THEN <<d>>
    ELSE IF debtCmp(strategy, d, Head(s)) < 0 THEN <<d>> \o s
    ELSE <<Head(s)>> \o InsertSorted(d, Tail(s), strategy)

RECURSIVE SortBy(_, _)
SortBy(s, strategy) ==
    IF s = <<>> THEN <<>>
    ELSE InsertSorted(s[Len(s)], SortBy(SubSeq(s, 1, Len(s) - 1), strategy), strategy)

sortedDebts(debts, rules) == SortBy(debts, rules.debtStrategy)

RECURSIVE debtLoop_SurplusToAny(_, _, _, _, _)
debtLoop_SurplusToAny(sorted, remainingDebtBudget, debtSnapshots, baseCurrency, fxSame) ==
    IF sorted = <<>> THEN debtSnapshots
    ELSE LET debt       == Head(sorted)
             minPayment == debt.minMonthlyPayment
             extra      == remainingDebtBudget > minPayment
             allocatedPayment ==
                 IF extra THEN Min(remainingDebtBudget, debt.outstandingPrincipal)
                 ELSE minPayment
             snapshot ==
                 [debtId |-> debt.id,
                  outstandingPrincipal |-> debt.outstandingPrincipal,
                  allocatedPayment |->
                      [amount |-> allocatedPayment, currency |-> baseCurrency,
                       baseAmount |-> (allocatedPayment * fxSame) \div RateScale,
                       fxRate |-> fxSame],
                  isMinimumPayment |-> ~extra]
         IN debtLoop_SurplusToAny(Tail(sorted), remainingDebtBudget - allocatedPayment,
                                  Append(debtSnapshots, snapshot), baseCurrency, fxSame)

\* Step 5, the loop over the sorted debts: the snapshots pushed so far and
\* the remaining debt budget; fxSame is the rate createMoney finds for the
\* base currency against itself
RECURSIVE debtLoop(_, _, _, _, _)
debtLoop(sorted, remainingDebtBudget, debtSnapshots, baseCurrency, fxSame) ==
    IF sorted = <<>> THEN debtSnapshots
    ELSE LET debt       == Head(sorted)
             minPayment == debt.minMonthlyPayment
             extra      == remainingDebtBudget > minPayment /\ Len(debtSnapshots) = 0
             allocatedPayment ==
                 IF extra THEN Min(remainingDebtBudget, debt.outstandingPrincipal)
                 ELSE minPayment
             snapshot ==
                 [debtId |-> debt.id,
                  outstandingPrincipal |-> debt.outstandingPrincipal,
                  allocatedPayment |->
                      [amount |-> allocatedPayment, currency |-> baseCurrency,
                       baseAmount |-> (allocatedPayment * fxSame) \div RateScale,
                       fxRate |-> fxSame],
                  isMinimumPayment |-> ~extra]
         IN debtLoop(Tail(sorted), remainingDebtBudget - allocatedPayment,
                     Append(debtSnapshots, snapshot), baseCurrency, fxSame)

\* an optional field (bucket?, category?): <<>> when absent, <<v>> when set
None == <<>>
Some(v) == <<v>>

Insight(id, type, template, arg, num, bucket, category) ==
    [id |-> id, type |-> type,
     message |-> [template |-> template, arg |-> arg, num |-> num],
     bucket |-> bucket, category |-> category]

\* Step 1: the sum of baseAmount over the active income sources
totalIncomeBaseOf(incomes) ==
    SumSeq([i \in DOMAIN SelectSeq(incomes, LAMBDA inc : inc.isActive) |->
               SelectSeq(incomes, LAMBDA inc : inc.isActive)[i].baseAmount])

savingsFloor_NotEnforced(savingsPlanned, minSavings) == savingsPlanned

\* Step 3, the savings floor: the planned savings after enforcement
savingsFloor(savingsPlanned, minSavings) ==
    IF savingsPlanned < minSavings THEN minSavings ELSE savingsPlanned

\* Step 3, the debt floor: the planned debt after enforcement
debtFloor(debtPlanned, totalMinDebtPayments) ==
    IF debtPlanned < totalMinDebtPayments THEN totalMinDebtPayments ELSE debtPlanned

\* Step 8: the initial insights, tested on the amounts after enforcement;
\* uuids are taken from count + 1 on
initialInsights(count, savingsPlanned, minSavings, debtPlanned, totalIncomeBase, rules) ==
    LET savingsWarning ==
            IF savingsPlanned < minSavings
            THEN <<Insight(count + 1, "warning", "savings below the recommended minimum",
                           <<>>, rules.minSavingsPercent, Some("SAVINGS"), None)>>
            ELSE <<>>
        debtAlert ==
            IF 5 * debtPlanned > 2 * totalIncomeBase
            THEN <<Insight(count + Len(savingsWarning) + 1, "alert",
                           "debt payments exceed 40% of income", <<>>, 0,
                           Some("DEBT"), None)>>
            ELSE <<>>
    IN savingsWarning \o debtAlert

\* generateBudgetPlan from Step 2 on, given the totalIncome its first
\* createMoney returned: the plan it builds and the uuid count after it
buildPlan(totalIncome, count, userId, month, baseCurrency, incomes, debts, rules) ==
    LET totalIncomeBase == totalIncomeBaseOf(incomes)
        needsPlanned    == (totalIncomeBase * rules.buckets.needs) \div 100
        wantsPlanned    == (totalIncomeBase * rules.buckets.wants) \div 100
        minSavings      == (totalIncomeBase * rules.minSavingsPercent) \div 100
        totalMinDebtPayments ==
            SumSeq([i \in DOMAIN debts |-> debts[i].minMonthlyPayment])
        savingsPlanned  == savingsFloor((totalIncomeBase * rules.buckets.savings) \div 100,
                                        minSavings)
        debtPlanned     == debtFloor((totalIncomeBase * rules.buckets.debt) \div 100,
                                     totalMinDebtPayments)
        debtSnapshots   == debtLoop(sortedDebts(debts, rules), debtPlanned, <<>>,
                                    baseCurrency, totalIncome.fxRate)
        buckets ==
            [b \in BucketTypes |->
                createBucket(b,
                             CASE b = "NEEDS" -> needsPlanned
                               [] b = "WANTS" -> wantsPlanned
                               [] b = "SAVINGS" -> savingsPlanned
                               [] b = "DEBT" -> debtPlanned,
                             baseCurrency, DEFAULT_CATEGORIES[b])]
        insights == initialInsights(count, savingsPlanned, minSavings, debtPlanned,
                                    totalIncomeBase, rules)
        id == count + Len(insights) + 1
    IN [plan |-> [id |-> id, userId |-> userId, month |-> month,
                  baseCurrency |-> baseCurrency,
                  totalIncome |-> totalIncome,
                  buckets |-> buckets,
                  debtsSnapshot |-> debtSnapshots,
                  insights |-> insights],
        count |-> id]

\* generateBudgetPlan run to completion: the plan it builds and stores, the
\* FX cache its createMoney calls leave, and the uuid count after it
generateBudgetPlan(cache, t, count, userId, month, baseCurrency, incomes, debts, rules) ==
    LET totalIncome == createMoney(cache, t, totalIncomeBaseOf(incomes), baseCurrency,
                                   baseCurrency, ProviderFail)
        built == buildPlan(totalIncome.money, count, userId, month, baseCurrency,
                           incomes, debts, rules)
    IN [plan |-> built.plan, cache |-> totalIncome.cache, count |-> built.count]

----------------------------------------------------------------------------
(* Transaction evaluation *)

updateBucket_Magnitude(bucketData, baseAmount) ==
    LET spent     == bucketData.spent.baseAmount
                        + (IF baseAmount < 0 THEN -baseAmount ELSE baseAmount)
        remaining == bucketData.planned.baseAmount - spent
    IN [bucketData EXCEPT
            !.spent.baseAmount = spent,
            !.spent.amount = bucketData.spent.amount + baseAmount,
            !.remaining.baseAmount = remaining,
            !.remaining.amount = remaining,
            !.status = calculateStatus(spent, bucketData.planned.baseAmount)]

\* "Update bucket": spent, remaining and status of the target bucket
updateBucket(bucketData, baseAmount) ==
    LET spent     == bucketData.spent.baseAmount + baseAmount
        remaining == bucketData.planned.baseAmount - spent
    IN [bucketData EXCEPT
            !.spent.baseAmount = spent,
            !.spent.amount = bucketData.spent.amount + baseAmount,
            !.remaining.baseAmount = remaining,
            !.remaining.amount = remaining,
            !.status = calculateStatus(spent, bucketData.planned.baseAmount)]

updateCategory_StaleRemaining(categories, category, baseAmount) ==
    IF category \in DOMAIN categories
    THEN LET cat   == categories[category]
             spent == cat.spent + baseAmount
         IN [categories EXCEPT ![category] =
                [cat EXCEPT !.spent = spent,
                            !.status = calculateStatus(spent, cat.planned)]]
    ELSE (category :> [name |-> category, planned |-> 0, spent |-> baseAmount,
                       remaining |-> -baseAmount, status |-> "OVER"]) @@ categories

\* "Update category": the categories of the bucket after the transaction
updateCategory(categories, category, baseAmount) ==
    IF category \in DOMAIN categories
    THEN LET cat   == categories[category]
             spent == cat.spent + baseAmount
         IN [categories EXCEPT ![category] =
                [cat EXCEPT !.spent = spent,
                            !.remaining = cat.planned - spent,
                            !.status = calculateStatus(spent, cat.planned)]]
    ELSE (category :> [name |-> category, planned |-> 0, spent |-> baseAmount,
                       remaining |-> -baseAmount, status |-> "OVER"]) @@ categories

newInsightsOf_ElseIf(count, bucketData, bucket, category, baseCurrency) ==
    LET nearLimit ==
            IF bucketData.status = "NEAR_LIMIT"
            THEN <<Insight(count + 1, "warning", "approaching budget limit", <<bucket>>,
                           RoundPercent(bucketData.spent.baseAmount,
                                        bucketData.planned.baseAmount),
                           Some(bucket), None)>>
            ELSE <<>>
        over ==
            IF bucketData.status = "OVER"
            THEN <<Insight(count + Len(nearLimit) + 1, "alert", "exceeded budget by",
                           <<bucket, baseCurrency>>,
                           bucketData.spent.baseAmount - bucketData.planned.baseAmount,
                           Some(bucket), None)>>
            ELSE <<>>
        categoryOver ==
            IF bucketData.status = "UNDER"
               /\ category \in DOMAIN bucketData.categories
               /\ bucketData.categories[category].status = "OVER"
            THEN <<Insight(count + Len(nearLimit) + Len(over) + 1, "alert",
                           "Over budget in", <<category>>, 0,
                           Some(bucket), Some(category))>>
            ELSE <<>>
    IN nearLimit \o over \o categoryOver

\* "Generate insights": the insights of this call, from the bucket and the
\* category as the call leaves them; uuids are taken from count + 1 on
newInsightsOf(count, bucketData, bucket, category, baseCurrency) ==
    LET nearLimit ==
            IF bucketData.status = "NEAR_LIMIT"
            THEN <<Insight(count + 1, "warning", "approaching budget limit", <<bucket>>,
                           RoundPercent(bucketData.spent.baseAmount,
                                        bucketData.planned.baseAmount),
                           Some(bucket), None)>>
            ELSE <<>>
        over ==
            IF bucketData.status = "OVER"
            THEN <<Insight(count + Len(nearLimit) + 1, "alert", "exceeded budget by",
                           <<bucket, baseCurrency>>,
                           bucketData.spent.baseAmount - bucketData.planned.baseAmount,
                           Some(bucket), None)>>
            ELSE <<>>
        categoryOver ==
            IF category \in DOMAIN bucketData.categories
               /\ bucketData.categories[category].status = "OVER"
            THEN <<Insight(count + Len(nearLimit) + Len(over) + 1, "alert",
                           "Over budget in", <<category>>, 0,
                           Some(bucket), Some(category))>>
            ELSE <<>>
    IN nearLimit \o over \o categoryOver

pushInsights_Replace(insights, newInsights) == newInsights

\* plan.insights.push(...newInsights)
pushInsights(insights, newInsights) == insights \o newInsights

\* logTransaction from "Create transaction" to its return, on the plan
\* object it holds: the transaction, the plan after the mutations, the new
\* insights and the uuid count
applyTransaction(plan, count, userId, amount, money, baseCurrency, category, bucket) ==
    LET transaction ==
            [id |-> count + 1, userId |-> userId, budgetPlanId |-> plan.id,
             type |-> IF amount < 0 THEN "income" ELSE "expense",
             money |-> money, category |-> category, bucket |-> bucket]
        updated    == updateBucket(plan.buckets[bucket], money.baseAmount)
        bucketData == [updated EXCEPT !.categories =
                          updateCategory(updated.categories, category, money.baseAmount)]
        newInsights == newInsightsOf(count + 1, bucketData, bucket, category, baseCurrency)
    IN [transaction |-> transaction,
        updatedPlan |-> [plan EXCEPT !.buckets[bucket] = bucketData,
                                     !.insights = pushInsights(plan.insights, newInsights)],
        insights |-> newInsights,
        count |-> count + 1 + Len(newInsights)]

----------------------------------------------------------------------------
(* Inputs *)

Users == {"u1"}
Months == {"2025-01", "2025-02"}
BaseCurrencies == {"AED"}

Income(isActive, baseAmount) == [isActive |-> isActive, baseAmount |-> baseAmount]
IncomeLists == {<<>>, <<Income(TRUE, 6000)>>, <<Income(TRUE, -6000)>>}

Amounts == {-500, 400, 2500}
Categories == {"groceries", "gym"}
TxBuckets == {"NEEDS"}

\* what the provider may answer: a failure, a payload without the target
\* currency, a live rate of 3.5
ProviderAnswers == {ProviderFail, [ok |-> TRUE, rate |-> 0], [ok |-> TRUE, rate |-> 3500]}

\* the answers that matter to a lookup: one (unused) when it stays in the cache
AnswersFor(cache, t, from, to) ==
    IF fetchFxRate(cache, t, from, to, ProviderFail).outbound
    THEN ProviderAnswers ELSE {ProviderFail}

----------------------------------------------------------------------------
(* State *)

\* the two overlapping callers of logTransaction
Callers == {1, 2}

IdleCall ==
    [pc |-> "idle", userId |-> "", month |-> "", amount |-> 0, currency |-> "",
     baseCurrency |-> "", category |-> "", bucket |-> "", plan |-> 0,
     totalIncome |-> <<>>, money |-> <<>>]

NoCall ==
    [n |-> 0, op |-> "none", userId |-> "", month |-> "", baseCurrency |-> "",
     incomes |-> <<>>, debts |-> <<>>, rules |-> DEFAULT_BUDGET_RULES,
     amount |-> 0, currency |-> "", category |-> "", bucket |-> "",
     planId |-> 0, existed |-> FALSE, transaction |-> <<>>, insights |-> <<>>]

Init ==
    /\ budgetPlans = <<>>
    /\ plans = <<>>
    /\ transactions = <<>>
    /\ fxRateCache = <<>>
    /\ now = 0
    /\ uuidCount = 0
    /\ lastCall = NoCall
    /\ calls = [c \in Callers |-> IdleCall]

\* the plan objects still reachable: from the store or from a call in flight
Reachable(heap, store, inflight) ==
    [id \in ({store[k] : k \in DOMAIN store}
             \cup {inflight[c].plan : c \in DOMAIN inflight}) \cap DOMAIN heap |-> heap[id]]

\* budgetPlans.get(getPlanKey(userId, month)), undefined as <<>>
getBudgetPlan(userId, month) ==
    IF getPlanKey(userId, month) \in DOMAIN budgetPlans
    THEN Some(plans[budgetPlans[getPlanKey(userId, month)]])
    ELSE None

----------------------------------------------------------------------------
(* Service calls, each run to completion *)

GenerateBudgetPlan(userId, month, baseCurrency, incomes, debts, rules) ==
    \E gen \in {generateBudgetPlan(fxRateCache, now, uuidCount, userId, month,
                                   baseCurrency, incomes, debts, rules)} :
       /\ budgetPlans' = storePlan(budgetPlans, getPlanKey(userId, month), gen.plan.id)
       /\ plans' = Reachable((gen.plan.id :> gen.plan) @@ plans, budgetPlans', calls)
       /\ fxRateCache' = gen.cache
       /\ uuidCount' = gen.count
       /\ lastCall' = [NoCall EXCEPT !.n = lastCall.n + 1, !.op = "generateBudgetPlan",
                          !.userId = userId, !.month = month,
                          !.baseCurrency = baseCurrency, !.incomes = incomes,
                          !.debts = debts, !.rules = rules, !.planId = gen.plan.id,
                          !.existed = getPlanKey(userId, month) \in DOMAIN budgetPlans,
                          !.insights = gen.plan.insights]
       /\ UNCHANGED <<transactions, now, calls>>

LogTransaction(userId, month, amount, currency, baseCurrency, category, bucket, live) ==
    LET key    == getPlanKey(userId, month)
        exists == key \in DOMAIN budgetPlans
    IN \E gen \in {generateBudgetPlan(fxRateCache, now, uuidCount, userId, month,
                                     baseCurrency, <<>>, <<>>, DEFAULT_BUDGET_RULES)} :
       \E plan \in {IF exists THEN plans[budgetPlans[key]] ELSE gen.plan} :
       \E m \in {createMoney(IF exists THEN fxRateCache ELSE gen.cache, now, amount, currency, baseCurrency, live)} :
       \E r \in {applyTransaction(plan, IF exists THEN uuidCount ELSE gen.count, userId, amount, m.money, baseCurrency,
                                   category, bucket)} :
       /\ transactions' = (r.transaction.id :> r.transaction) @@ transactions
       /\ budgetPlans' = storePlan(budgetPlans, key, plan.id)
       /\ plans' = Reachable((plan.id :> r.updatedPlan) @@ plans, budgetPlans', calls)
       /\ fxRateCache' = m.cache
       /\ uuidCount' = r.count
       /\ lastCall' = [NoCall EXCEPT !.n = lastCall.n + 1, !.op = "logTransaction",
                          !.userId = userId, !.month = month,
                          !.baseCurrency = baseCurrency, !.amount = amount,
                          !.currency = currency, !.category = category,
                          !.bucket = bucket, !.planId = plan.id,
                          !.existed = exists,
                          !.transaction = Some(r.transaction),
                          !.insights = r.insights]
       /\ UNCHANGED <<now, calls>>

Generate ==
    /\ lastCall.n < MaxOps
    /\ \E userId \in Users, month \in Months, baseCurrency \in BaseCurrencies,
          incomes \in IncomeLists :
          GenerateBudgetPlan(userId, month, baseCurrency, incomes, <<>>,
                             DEFAULT_BUDGET_RULES)

Log ==
    /\ lastCall.n < MaxOps
    /\ \E userId \in Users, month \in Months, amount \in Amounts,
          currency \in BaseCurrencies, baseCurrency \in BaseCurrencies,
          category \in Categories, bucket \in TxBuckets :
          \E live \in AnswersFor(fxRateCache, now, currency, baseCurrency) :
             LogTransaction(userId, month, amount, currency, baseCurrency,
                            category, bucket, live)

Next == Generate \/ Log

Spec == Init /\ [][Next]_vars

----------------------------------------------------------------------------
(* Two overlapping logTransaction calls.  A call runs without interruption  *)
(* from one await to the next; between two awaits of one call the other     *)
(* call may run.  pc names the await a call is suspended at:                *)
(*   "gen"      inside generateBudgetPlan, at its createMoney (line 78)      *)
(*   "planned"  at `await generateBudgetPlan` (line 371), the plan stored    *)
(*   "money"    at `await createMoney` (line 375)                           *)
(*   "done"     returned                                                    *)

ConcCurrencies == {"AED", "USD"}
ConcAmounts == {400, 2500}

\* line 375 up to the await: createMoney runs fetchFxRate as far as its
\* outbound call; money is known at once unless the provider is called
callCreateMoney(c) ==
    \E fx \in {fetchStarted(fxRateCache, now, calls[c].currency, calls[c].baseCurrency)} :
       /\ fxRateCache' = fx.cache
       /\ calls' = [calls EXCEPT ![c].pc = "money",
                       ![c].money = IF fx.outbound THEN None
                                    ELSE Some(moneyAt(calls[c].amount, calls[c].currency,
                                                      fx.fxRate))]

\* lines 367-375 up to the first await: the plan is looked up; with a plan
\* the call goes on to createMoney, without one it enters generateBudgetPlan
\* and suspends at its createMoney
LtStart(c, userId, month, amount, currency, baseCurrency, category, bucket) ==
    /\ calls[c].pc = "idle"
    /\ LET key  == getPlanKey(userId, month)
           call == [IdleCall EXCEPT !.userId = userId, !.month = month,
                       !.amount = amount, !.currency = currency,
                       !.baseCurrency = baseCurrency, !.category = category,
                       !.bucket = bucket]
       IN IF key \in DOMAIN budgetPlans
          THEN \E fx \in {fetchStarted(fxRateCache, now, currency, baseCurrency)} :
                  /\ fxRateCache' = fx.cache
                  /\ calls' = [calls EXCEPT ![c] =
                                  [call EXCEPT !.pc = "money", !.plan = budgetPlans[key],
                                      !.money = IF fx.outbound THEN None
                                                ELSE Some(moneyAt(amount, currency, fx.fxRate))]]
          ELSE \E fx \in {fetchStarted(fxRateCache, now, baseCurrency, baseCurrency)} :
                  /\ fxRateCache' = fx.cache
                  /\ calls' = [calls EXCEPT ![c] =
                                  [call EXCEPT !.pc = "gen",
                                      !.totalIncome = Some(moneyAt(0, baseCurrency, fx.fxRate))]]
    /\ UNCHANGED <<budgetPlans, plans, transactions, now, uuidCount, lastCall>>

\* generateBudgetPlan resumes after line 78, builds the default plan and
\* stores it (line 278)
LtGenResume(c) ==
    /\ calls[c].pc = "gen"
    /\ \E built \in {buildPlan(calls[c].totalIncome[1], uuidCount, calls[c].userId,
                               calls[c].month, calls[c].baseCurrency, <<>>, <<>>,
                               DEFAULT_BUDGET_RULES)} :
          /\ budgetPlans' = storePlan(budgetPlans,
                                      getPlanKey(calls[c].userId, calls[c].month),
                                      built.plan.id)
          /\ calls' = [calls EXCEPT ![c].pc = "planned", ![c].plan = built.plan.id]
          /\ plans' = Reachable((built.plan.id :> built.plan) @@ plans, budgetPlans', calls')
          /\ uuidCount' = built.count
    /\ UNCHANGED <<transactions, fxRateCache, now, lastCall>>

\* logTransaction resumes after line 371 and calls createMoney
LtPlanned(c) ==
    /\ calls[c].pc = "planned"
    /\ callCreateMoney(c)
    /\ UNCHANGED <<budgetPlans, plans, transactions, now, uuidCount, lastCall>>

\* logTransaction resumes after line 375 (the provider answering `live` if
\* it was called), updates the plan object it holds, and persists
LtMoneyResume(c, live) ==
    /\ calls[c].pc = "money"
    /\ \E fx \in {IF calls[c].money = None
                  THEN fetchCompleted(fxRateCache, now, calls[c].currency,
                                      calls[c].baseCurrency, live)
                  ELSE [cache |-> fxRateCache]} :
       \E money \in {IF calls[c].money = None
                     THEN moneyAt(calls[c].amount, calls[c].currency, fx.fxRate)
                     ELSE calls[c].money[1]} :
       \E r \in {applyTransaction(plans[calls[c].plan], uuidCount, calls[c].userId,
                                  calls[c].amount, money, calls[c].baseCurrency,
                                  calls[c].category, calls[c].bucket)} :
          /\ fxRateCache' = fx.cache
          /\ transactions' = (r.transaction.id :> r.transaction) @@ transactions
          /\ budgetPlans' = storePlan(budgetPlans,
                                      getPlanKey(calls[c].userId, calls[c].month),
                                      calls[c].plan)
          /\ calls' = [calls EXCEPT ![c].pc = "done", ![c].money = Some(money)]
          /\ plans' = Reachable((calls[c].plan :> r.updatedPlan) @@ plans,
                                budgetPlans', calls')
          /\ uuidCount' = r.count
          /\ lastCall' = [NoCall EXCEPT !.n = lastCall.n + 1, !.op = "logTransaction",
                             !.userId = calls[c].userId, !.month = calls[c].month,
                             !.baseCurrency = calls[c].baseCurrency,
                             !.amount = calls[c].amount, !.currency = calls[c].currency,
                             !.category = calls[c].category, !.bucket = calls[c].bucket,
                             !.planId = calls[c].plan,
                             !.transaction = Some(r.transaction),
                             !.insights = r.insights]
    /\ UNCHANGED now

\* the plan may have been generated before the two calls start
ConcGenerate ==
    /\ lastCall.n = 0
    /\ \A c \in Callers : calls[c].pc = "idle"
    /\ \E userId \in Users, month \in Months, incomes \in {<<Income(TRUE, 6000)>>} :
          GenerateBudgetPlan(userId, month, "AED", incomes, <<>>, DEFAULT_BUDGET_RULES)

ConcStart ==
    \E c \in Callers, userId \in Users, month \in Months, amount \in ConcAmounts,
       currency \in ConcCurrencies, category \in Categories, bucket \in TxBuckets :
       LtStart(c, userId, month, amount, currency, "AED", category, bucket)

ConcGenResume == \E c \in Callers : LtGenResume(c)

ConcPlanned == \E c \in Callers : LtPlanned(c)

ConcMoneyResume ==
    \E c \in Callers :
       \E live \in (IF calls[c].money = None THEN ProviderAnswers ELSE {ProviderFail}) :
          LtMoneyResume(c, live)

NextConc == ConcGenerate \/ ConcStart \/ ConcGenResume \/ ConcPlanned \/ ConcMoneyResume

SpecConc == Init /\ [][NextConc]_vars

----------------------------------------------------------------------------
(* The planner on its own: one generateBudgetPlan call on an empty store,   *)
(* for every request drawn from the sets below.                             *)

RuleSet(needs, wants, savings, debt, minSavingsPercent, debtStrategy) ==
    [buckets |-> [needs |-> needs, wants |-> wants, savings |-> savings, debt |-> debt],
     minSavingsPercent |-> minSavingsPercent,
     minDebtPercent |-> DEFAULT_BUDGET_RULES.minDebtPercent,
     debtStrategy |-> debtStrategy]

PlannerRules ==
    {DEFAULT_BUDGET_RULES,
     RuleSet(50, 20, 15, 15, 10, "snowball"),
     RuleSet(50, 30, 5, 15, 10, "avalanche"),
     RuleSet(30, 10, 15, 45, 10, "snowball")}

PlannerIncomes ==
    {<<>>,
     <<Income(TRUE, 6000)>>,
     <<Income(TRUE, 6000), Income(FALSE, 6000)>>,
     <<Income(TRUE, 6000), Income(TRUE, 6000)>>}

\* a debt, its Money fields by their baseAmount
Debt(id, minMonthlyPayment, outstandingPrincipal, interestRateAnnual) ==
    [id |-> id, minMonthlyPayment |-> minMonthlyPayment,
     outstandingPrincipal |-> outstandingPrincipal,
     interestRateAnnual |-> interestRateAnnual]

DebtTerms == {500, 1000} \X {300, 5000} \X {5, 20}

\* the debt lists of up to MaxDebts debts, the i-th with id i
PlannerDebts ==
    UNION {{[i \in 1 .. n |-> Debt(i, f[i][1], f[i][2], f[i][3])] : f \in [1 .. n -> DebtTerms]}
           : n \in 0 .. MaxDebts}

InitPlanner ==
    /\ budgetPlans = <<>>
    /\ plans = <<>>
    /\ transactions = <<>>
    /\ fxRateCache = <<>>
    /\ now = 0
    /\ uuidCount = 0
    /\ calls = [c \in Callers |-> IdleCall]
    /\ \E incomes \in PlannerIncomes, debts \in PlannerDebts, rules \in PlannerRules :
          lastCall = [NoCall EXCEPT !.op = "request", !.userId = "u1",
                         !.month = "2025-01", !.baseCurrency = "AED",
                         !.incomes = incomes, !.debts = debts, !.rules = rules]

PlannerGenerate ==
    /\ lastCall.op = "request"
    /\ GenerateBudgetPlan(lastCall.userId, lastCall.month, lastCall.baseCurrency,
                          lastCall.incomes, lastCall.debts, lastCall.rules)

NextPlanner == PlannerGenerate

SpecPlanner == InitPlanner /\ [][NextPlanner]_vars

----------------------------------------------------------------------------
(* The routes POST /plan and POST /transactions.  A request body is a       *)
(* record of optional fields; a text the handler inspects character by      *)
(* character (month, date) is a sequence of characters.                     *)

Digits == <<"0", "1", "2", "3", "4", "5", "6", "7", "8", "9">>
IsDigit(ch) == ch \in Range(Digits)
DigitValue(ch) == (CHOOSE i \in DOMAIN Digits : Digits[i] = ch) - 1

RECURSIVE NumberOf(_)
NumberOf(chars) ==
    IF chars = <<>> THEN 0
    ELSE NumberOf(SubSeq(chars, 1, Len(chars) - 1)) * 10 + DigitValue(chars[Len(chars)])

\* the string of a sequence of characters
RECURSIVE Str(_)
Str(chars) == IF chars = <<>> THEN "" ELSE Head(chars) \o Str(Tail(chars))

\* /^\d{4}-\d{2}$/.test(month)
monthFormat(chars) ==
    /\ Len(chars) = 7
    /\ \A i \in {1, 2, 3, 4, 6, 7} : IsDigit(chars[i])
    /\ chars[5] = "-"

\* !x for an optional string and for an optional text: undefined or empty
notString(opt) == opt = None \/ opt = Some("")
notText(opt) == opt = None \/ opt = Some(<<>>)

\* a destructuring default: the value of the field, or dflt when undefined
orDefault(opt, dflt) == IF opt = None THEN dflt ELSE opt[1]

\* A Date by what the handler reads of it: getFullYear() and getMonth(),
\* both NaN for an Invalid Date.
InvalidDate == [valid |-> FALSE, year |-> 0, month |-> 0]

\* new Date(text) for a date-only ISO text YYYY-MM-DD; any other text of the
\* model is unparsable.  The days drawn are mid-month, so the local month is
\* the UTC month in every time zone.
parseDate(chars) ==
    IF /\ Len(chars) = 10
       /\ \A i \in {1, 2, 3, 4, 6, 7, 9, 10} : IsDigit(chars[i])
       /\ chars[5] = "-" /\ chars[8] = "-"
       /\ NumberOf(SubSeq(chars, 6, 7)) \in 1 .. 12
       /\ NumberOf(SubSeq(chars, 9, 10)) \in 1 .. 28
    THEN [valid |-> TRUE, year |-> NumberOf(SubSeq(chars, 1, 4)),
          month |-> NumberOf(SubSeq(chars, 6, 7)) - 1]
    ELSE InvalidDate

\* new Date(): the clock of the model stays within January 1970
currentDate(t) == [valid |-> TRUE, year |-> 1970, month |-> 0]

\* String(n).padStart(2, "0"), for n >= 0
padStart(n) == IF n < 10 THEN "0" \o ToString(n) ELSE ToString(n)

\* `${date.getFullYear()}-${String(date.getMonth() + 1).padStart(2, "0")}`
monthOfDate(date) ==
    IF date.valid THEN ToString(date.year) \o "-" \o padStart(date.month + 1)
    ELSE "NaN-NaN"

\* res.status(400): the handler returns before it reaches the service
Reject ==
    /\ lastCall' = [NoCall EXCEPT !.n = lastCall.n + 1, !.op = "rejected"]
    /\ UNCHANGED <<budgetPlans, plans, transactions, fxRateCache, now, uuidCount, calls>>

PostPlan_NoFormatCheck(body) ==
    IF notString(body.userId) \/ notText(body.month) THEN Reject
    ELSE GenerateBudgetPlan(body.userId[1], Str(body.month[1]),
                            orDefault(body.baseCurrency, "AED"),
                            orDefault(body.incomes, <<>>), <<>>,
                            DEFAULT_BUDGET_RULES)

PostPlan(body) ==
    IF notString(body.userId) \/ notText(body.month) THEN Reject
    ELSE IF ~monthFormat(body.month[1]) THEN Reject
    ELSE GenerateBudgetPlan(body.userId[1], Str(body.month[1]),
                            orDefault(body.baseCurrency, "AED"),
                            orDefault(body.incomes, <<>>), <<>>,
                            DEFAULT_BUDGET_RULES)

PostTransactions(body) ==
    IF \/ notString(body.userId) \/ body.amount = None
       \/ notString(body.category) \/ notString(body.bucket)
    THEN Reject
    ELSE IF body.bucket[1] \notin BucketTypes THEN Reject
    ELSE LET transactionDate == IF notText(body.date) THEN currentDate(now)
                                ELSE parseDate(body.date[1])
             month    == monthOfDate(transactionDate)
             currency == orDefault(body.currency, "AED")
         IN \E live \in AnswersFor(fxRateCache, now, currency, currency) :
               LogTransaction(body.userId[1], month, body.amount[1], currency,
                              currency, body.category[1], body.bucket[1], live)

\* the characters of the texts the requests carry
Text202501 == <<"2", "0", "2", "5", "-", "0", "1">>
Text20251 == <<"2", "0", "2", "5", "-", "1">>
Text20250115 == Text202501 \o <<"-", "1", "5">>
TextSoon == <<"s", "o", "o", "n">>

PlanBodies ==
    [userId : {None, Some("u1")},
     month : {None, Some(<<>>), Some(Text202501), Some(Text20251)},
     baseCurrency : {None, Some("USD")},
     incomes : {None, Some(<<Income(TRUE, 6000)>>)}]

TransactionBodies ==
    [userId : {None, Some("u1")},
     amount : {None, Some(400)},
     currency : {None, Some("USD")},
     category : {None, Some("groceries")},
     bucket : {None, Some("NEEDS"), Some("FOOD")},
     date : {None, Some(Text20250115), Some(TextSoon)}]

RoutePlan ==
    /\ lastCall.n < MaxOps
    /\ \E body \in PlanBodies : PostPlan(body)

RouteTransactions ==
    /\ lastCall.n < MaxOps
    /\ \E body \in TransactionBodies : PostTransactions(body)

NextRoutes == RoutePlan \/ RouteTransactions

SpecRoutes == Init /\ [][NextRoutes]_vars

----------------------------------------------------------------------------
(* The read entrypoints and generateInsights, next to the two writers.      *)

DayMs == 24 * 60 * 60 * 1000

\* new Date().getDate(): the clock of the model stays within January 1970
currentDay(t) == (t \div DayMs) + 1

Text202502 == <<"2", "0", "2", "5", "-", "0", "2">>
MonthTexts == {Text202501, Text202502}

\* the characters of a month string of the model
monthText(month) == CHOOSE chars \in MonthTexts : Str(chars) = month

\* plan.month.split("-")[0] and [1], for a text with one "-"
splitMonth(chars) ==
    LET dash == CHOOSE i \in DOMAIN chars : chars[i] = "-" /\ \A j \in 1 .. i - 1 : chars[j] # "-"
    IN <<SubSeq(chars, 1, dash - 1), SubSeq(chars, dash + 1, Len(chars))>>

\* parseInt of a text of digits
parseInt(chars) == NumberOf(chars)

IsLeapYear(y) == (y % 4 = 0 /\ y % 100 # 0) \/ y % 400 = 0

\* new Date(year, month, 0).getDate(): the last day of the month, month in 1 .. 12
daysInMonth(year, month) ==
    IF month = 2 THEN (IF IsLeapYear(year) THEN 29 ELSE 28)
    ELSE IF month \in {4, 6, 9, 11} THEN 30 ELSE 31

\* Object.entries(plan.buckets): the buckets in the order of the literal
BucketEntries == <<"NEEDS", "WANTS", "SAVINGS", "DEBT">>

\* Object.entries(bucket.categories): the configured names in their order,
\* then the category logTransaction added (the model adds at most one to a
\* bucket)
categoryEntries(type, categories) ==
    LET added == DOMAIN categories \ Range(DEFAULT_CATEGORIES[type])
    IN DEFAULT_CATEGORIES[type]
          \o (IF added = {} THEN <<>> ELSE <<CHOOSE name \in added : TRUE>>)

\* x.toFixed(1) of 100 * a / b, in tenths, for a >= 0 and b > 0
percentTenths(a, b) == (2000 * a + b) \div (2 * b)

Abs(x) == IF x < 0 THEN -x ELSE x

\* "Check each bucket": the insights of one bucket, ids not yet given
bucketInsights(plan, type) ==
    LET bucket  == plan.buckets[type]
        planned == bucket.planned.baseAmount
        spent   == bucket.spent.baseAmount
        \* percentUsed >= 100 and percentUsed >= 80, percentUsed being 0
        \* unless planned > 0
        exceeded == planned > 0 /\ spent >= planned
        high     == planned > 0 /\ 5 * spent >= 4 * planned
        ofBucket ==
            IF exceeded
            THEN <<Insight(0, "alert", "budget exceeded by", <<type>>,
                           percentTenths(spent - planned, planned), Some(type), None)>>
            ELSE IF high
            THEN <<Insight(0, "warning", "budget is used", <<type>>,
                           percentTenths(spent, planned), Some(type), None)>>
            ELSE <<>>
        names == categoryEntries(type, bucket.categories)
        over  == SelectSeq(names, LAMBDA name : bucket.categories[name].status = "OVER")
    IN ofBucket \o
       [i \in DOMAIN over |->
           Insight(0, "alert", "Over budget in", <<over[i], plan.baseCurrency>>,
                   Abs(bucket.categories[over[i]].remaining), Some(type), Some(over[i]))]

\* "Savings insights": on track when savings spent is under half of planned
\* and today is past the middle of the plan's month
savingsInsights(plan, t) ==
    LET parts == splitMonth(monthText(plan.month)) IN
    IF /\ 2 * plan.buckets["SAVINGS"].spent.baseAmount
             < plan.buckets["SAVINGS"].planned.baseAmount
       /\ 2 * currentDay(t) > daysInMonth(parseInt(parts[1]), parseInt(parts[2]))
    THEN <<Insight(0, "info", "on track with savings", <<>>, 0, Some("SAVINGS"), None)>>
    ELSE <<>>

generateInsights_CountInMessage(plan, count, t) ==
    LET found == bucketInsights(plan, BucketEntries[1]) \o bucketInsights(plan, BucketEntries[2])
                 \o bucketInsights(plan, BucketEntries[3]) \o bucketInsights(plan, BucketEntries[4])
                 \o savingsInsights(plan, t)
    IN [i \in DOMAIN found |-> [found[i] EXCEPT !.id = count + i,
                                                !.message.num = count + i]]

\* generateInsights(plan) at time t: the fresh list, uuids taken from
\* count + 1 on in the order of the pushes.  goalsSnapshot is empty in every
\* plan of the model, so the goal loop adds nothing.
generateInsights(plan, count, t) ==
    LET found == bucketInsights(plan, BucketEntries[1]) \o bucketInsights(plan, BucketEntries[2])
                 \o bucketInsights(plan, BucketEntries[3]) \o bucketInsights(plan, BucketEntries[4])
                 \o savingsInsights(plan, t)
    IN [i \in DOMAIN found |-> [found[i] EXCEPT !.id = count + i]]

\* plan?.insights || []
getInsights(userId, month) ==
    IF getPlanKey(userId, month) \in DOMAIN budgetPlans
    THEN plans[budgetPlans[getPlanKey(userId, month)]].insights
    ELSE <<>>

\* the plans of the user, as a set
getUserBudgetPlans(userId) ==
    {plans[budgetPlans[k]] : k \in {x \in DOMAIN budgetPlans : plans[budgetPlans[x]].userId = userId}}

\* the transactions of the plan, as a set
getTransactions(budgetPlanId) ==
    {transactions[id] : id \in {x \in DOMAIN transactions :
                                   transactions[x].budgetPlanId = budgetPlanId}}

\* the record of a completed read
ReadCall(n, op, userId, month, planId, result, at) ==
    [n |-> n, op |-> op, userId |-> userId, month |-> month, planId |-> planId,
     result |-> result, at |-> at]

\* the read entrypoints as calls: each returns and writes nothing
GetBudgetPlan(userId, month) ==
    /\ lastCall' = ReadCall(lastCall.n + 1, "getBudgetPlan", userId, month, 0,
                            getBudgetPlan(userId, month), now)
    /\ UNCHANGED <<budgetPlans, plans, transactions, fxRateCache, now, uuidCount, calls>>

GetInsights(userId, month) ==
    /\ lastCall' = ReadCall(lastCall.n + 1, "getInsights", userId, month, 0,
                            getInsights(userId, month), now)
    /\ UNCHANGED <<budgetPlans, plans, transactions, fxRateCache, now, uuidCount, calls>>

GetUserBudgetPlans(userId) ==
    /\ lastCall' = ReadCall(lastCall.n + 1, "getUserBudgetPlans", userId, "", 0,
                            getUserBudgetPlans(userId), now)
    /\ UNCHANGED <<budgetPlans, plans, transactions, fxRateCache, now, uuidCount, calls>>

GetTransactions(budgetPlanId) ==
    /\ lastCall' = ReadCall(lastCall.n + 1, "getTransactions", "", "", budgetPlanId,
                            getTransactions(budgetPlanId), now)
    /\ UNCHANGED <<budgetPlans, plans, transactions, fxRateCache, now, uuidCount, calls>>

GenerateInsights_Append(userId, month) ==
    /\ getPlanKey(userId, month) \in DOMAIN budgetPlans
    /\ \E fresh \in {generateInsights(plans[budgetPlans[getPlanKey(userId, month)]],
                                      uuidCount, now)} :
          /\ uuidCount' = uuidCount + Len(fresh)
          /\ plans' = [plans EXCEPT ![budgetPlans[getPlanKey(userId, month)]].insights =
                                       @ \o fresh]
          /\ lastCall' = ReadCall(lastCall.n + 1, "generateInsights", userId, month,
                                  budgetPlans[getPlanKey(userId, month)], fresh, now)
    /\ UNCHANGED <<budgetPlans, transactions, fxRateCache, now, calls>>

\* generateInsights on the plan stored for (userId, month), as the route
\* POST /insights/generate calls it
GenerateInsights(userId, month) ==
    /\ getPlanKey(userId, month) \in DOMAIN budgetPlans
    /\ \E fresh \in {generateInsights(plans[budgetPlans[getPlanKey(userId, month)]],
                                      uuidCount, now)} :
          /\ uuidCount' = uuidCount + Len(fresh)
          /\ lastCall' = ReadCall(lastCall.n + 1, "generateInsights", userId, month,
                                  budgetPlans[getPlanKey(userId, month)], fresh, now)
    /\ UNCHANGED <<budgetPlans, plans, transactions, fxRateCache, now, calls>>

ReadAmounts == {400, 2500}
ReadUsers == {"u1", "u2"}

ReadsGenerate ==
    /\ lastCall.n < MaxOps
    /\ \E month \in Months :
          GenerateBudgetPlan("u1", month, "AED", <<Income(TRUE, 6000)>>, <<>>,
                             DEFAULT_BUDGET_RULES)

ReadsLog ==
    /\ lastCall.n < MaxOps
    /\ \E month \in Months, amount \in ReadAmounts, category \in Categories :
          LogTransaction("u1", month, amount, "AED", "AED", category, "NEEDS", ProviderFail)

ReadsPlan ==
    /\ lastCall.n < MaxOps
    /\ \E userId \in ReadUsers, month \in Months : GetBudgetPlan(userId, month)

ReadsInsights ==
    /\ lastCall.n < MaxOps
    /\ \E userId \in ReadUsers, month \in Months : GetInsights(userId, month)

ReadsUserPlans ==
    /\ lastCall.n < MaxOps
    /\ \E userId \in ReadUsers : GetUserBudgetPlans(userId)

ReadsTransactions ==
    /\ lastCall.n < MaxOps
    /\ \E id \in DOMAIN plans \cup {0} : GetTransactions(id)

ReadsGenerateInsights ==
    /\ lastCall.n < MaxOps
    /\ \E userId \in ReadUsers, month \in Months : GenerateInsights(userId, month)

\* the clock: half an hour passes, once in a day; sixteen days pass, once
ReadsTick ==
    /\ \/ now % DayMs = 0 /\ now' = now + DayMs \div 48
       \/ now < DayMs /\ now' = now + 16 * DayMs
    /\ UNCHANGED <<budgetPlans, plans, transactions, fxRateCache, uuidCount, lastCall, calls>>

NextReads ==
    \/ ReadsGenerate \/ ReadsLog \/ ReadsPlan \/ ReadsInsights \/ ReadsUserPlans
    \/ ReadsTransactions \/ ReadsGenerateInsights \/ ReadsTick

SpecReads == Init /\ [][NextReads]_vars

----------------------------------------------------------------------------
(* The full rescan against the stored status: plans generated, spent up to  *)
(* 80%, 100% and 120% of the NEEDS bucket, then rescanned.                  *)

RescanAmounts == {2400, 3000, 3600}
RescanIncomes == {<<>>, <<Income(TRUE, 6000)>>}

RescanGenerate ==
    /\ lastCall.n < MaxOps
    /\ \E month \in Months, incomes \in RescanIncomes :
          GenerateBudgetPlan("u1", month, "AED", incomes, <<>>, DEFAULT_BUDGET_RULES)

RescanLog ==
    /\ lastCall.n < MaxOps
    /\ \E month \in Months, amount \in RescanAmounts :
          LogTransaction("u1", month, amount, "AED", "AED", "groceries", "NEEDS",
                         ProviderFail)

RescanInsights ==
    /\ lastCall.n < MaxOps
    /\ \E month \in Months : GenerateInsights("u1", month)

NextRescan == RescanGenerate \/ RescanLog \/ RescanInsights

SpecRescan == Init /\ [][NextRescan]_vars

----------------------------------------------------------------------------
(* The FX service on its own: createMoney lookups (each one a fetchFxRate   *)
(* call, suspended while the provider is asked), setFxRate, clearFxCache    *)
(* and the passage of time.  The lookup in flight is held in calls[1]:      *)
(* currency and baseCurrency are its `from` and `to`.                       *)

\* number of half hours the clock advances in one behaviour
MaxTicks == 3

HalfHourMs == FreshnessMs \div 2

\* a same-currency pair, a pair of the default table, an unlisted pair
FxPairs == {<<"AED", "AED">>, <<"USD", "AED">>, <<"USD", "EUR">>}
FxAmounts == {100}
\* the rates setFxRate is called with: 2 and 3.5
FxSetRates == {2000, 3500}

FxCaller == 1

\* the record of a completed FX call
FxCall(n, op, from, to, amount, fxRate, money, outbound, live) ==
    [n |-> n, op |-> op, from |-> from, to |-> to, amount |-> amount,
     fxRate |-> fxRate, money |-> money, outbound |-> outbound, live |-> live]

\* createMoney(amount, from, to) up to the outbound fetch of fetchFxRate:
\* with a fresh cached entry or a same-currency pair it returns at once
FxLookup(amount, from, to) ==
    /\ lastCall.n < MaxOps
    /\ calls[FxCaller].pc = "idle"
    /\ \E fx \in {fetchStarted(fxRateCache, now, from, to)} :
          /\ fxRateCache' = fx.cache
          /\ IF fx.outbound
             THEN /\ calls' = [calls EXCEPT ![FxCaller] =
                                  [IdleCall EXCEPT !.pc = "fetch", !.amount = amount,
                                      !.currency = from, !.baseCurrency = to]]
                  /\ UNCHANGED lastCall
             ELSE /\ lastCall' = FxCall(lastCall.n + 1, "createMoney", from, to, amount,
                                        fx.fxRate, moneyAt(amount, from, fx.fxRate),
                                        FALSE, ProviderFail)
                  /\ UNCHANGED calls
    /\ UNCHANGED <<budgetPlans, plans, transactions, now, uuidCount>>

\* the provider answers `live` (or fails): fetchFxRate caches the rate it
\* settles on, stamped with the time of the answer, and createMoney returns
FxAnswer(live) ==
    /\ calls[FxCaller].pc = "fetch"
    /\ LET call == calls[FxCaller] IN
       \E fx \in {fetchCompleted(fxRateCache, now, call.currency, call.baseCurrency, live)} :
          /\ fxRateCache' = fx.cache
          /\ lastCall' = FxCall(lastCall.n + 1, "createMoney", call.currency,
                                call.baseCurrency, call.amount, fx.fxRate,
                                moneyAt(call.amount, call.currency, fx.fxRate),
                                TRUE, live)
          /\ calls' = [calls EXCEPT ![FxCaller] = IdleCall]
    /\ UNCHANGED <<budgetPlans, plans, transactions, now, uuidCount>>

setFxRate(cache, t, from, to, rate) ==
    (getCacheKey(from, to) :> [from |-> from, to |-> to, rate |-> rate, timestamp |-> t])
       @@ cache

FxSet(from, to, rate) ==
    /\ lastCall.n < MaxOps
    /\ fxRateCache' = setFxRate(fxRateCache, now, from, to, rate)
    /\ lastCall' = FxCall(lastCall.n + 1, "setFxRate", from, to, 0,
                          fxRateCache'[getCacheKey(from, to)], None, FALSE, ProviderFail)
    /\ UNCHANGED <<budgetPlans, plans, transactions, now, uuidCount, calls>>

clearFxCache == <<>>

FxClear ==
    /\ lastCall.n < MaxOps
    /\ fxRateCache' = clearFxCache
    /\ lastCall' = FxCall(lastCall.n + 1, "clearFxCache", "", "", 0, None, None,
                          FALSE, ProviderFail)
    /\ UNCHANGED <<budgetPlans, plans, transactions, now, uuidCount, calls>>

\* half an hour passes
FxTick ==
    /\ now < MaxTicks * HalfHourMs
    /\ now' = now + HalfHourMs
    /\ UNCHANGED <<budgetPlans, plans, transactions, fxRateCache, uuidCount, lastCall, calls>>

FxCreateMoney == \E amount \in FxAmounts, pair \in FxPairs : FxLookup(amount, pair[1], pair[2])

FxProvider == \E live \in ProviderAnswers : FxAnswer(live)

FxSetRate == \E pair \in FxPairs, rate \in FxSetRates : FxSet(pair[1], pair[2], rate)

InitFx ==
    /\ budgetPlans = <<>>
    /\ plans = <<>>
    /\ transactions = <<>>
    /\ fxRateCache = <<>>
    /\ now = 0
    /\ uuidCount = 0
    /\ lastCall = FxCall(0, "none", "", "", 0, None, None, FALSE, ProviderFail)
    /\ calls = [c \in Callers |-> IdleCall]

NextFx == FxCreateMoney \/ FxProvider \/ FxSetRate \/ FxClear \/ FxTick

SpecFx == InitFx /\ [][NextFx]_vars

----------------------------------------------------------------------------
(* Properties *)

StoredKeys == DOMAIN budgetPlans
StoredPlan(key) == plans[budgetPlans[key]]

\* the (spent, planned) pairs a stored plan holds, buckets and categories
SpentPlannedPairs ==
    UNION {
        UNION {
            {<<StoredPlan(k).buckets[b].spent.baseAmount,
               StoredPlan(k).buckets[b].planned.baseAmount>>}
            \cup {<<StoredPlan(k).buckets[b].categories[c].spent,
                    StoredPlan(k).buckets[b].categories[c].planned>> :
                     c \in DOMAIN StoredPlan(k).buckets[b].categories}
            : b \in BucketTypes}
        : k \in StoredKeys}

\* C1: the store holds at most one plan per (userId, month), each under the
\* key of its own userId and month, and after generateBudgetPlan the plan
\* read back under its key is the newly generated one: the id the call
\* returned, drawn after every id in use before the call, every spent
\* amount 0, and only the insights of this generation.
C1_OnePlanPerKeyAndOverwrite ==
    /\ \A k \in StoredKeys :
          getPlanKey(StoredPlan(k).userId, StoredPlan(k).month) = k
    /\ \A k1, k2 \in StoredKeys :
          (StoredPlan(k1).userId = StoredPlan(k2).userId
           /\ StoredPlan(k1).month = StoredPlan(k2).month) => k1 = k2
    /\ lastCall.op = "generateBudgetPlan" =>
          /\ getBudgetPlan(lastCall.userId, lastCall.month) # None
          /\ LET plan == getBudgetPlan(lastCall.userId, lastCall.month)[1] IN
             /\ plan.id = lastCall.planId
             /\ plan.id = uuidCount
             /\ \A id \in DOMAIN transactions : transactions[id].budgetPlanId # plan.id
             /\ plan.insights = lastCall.insights
             /\ \A i \in DOMAIN plan.insights : plan.insights[i].type \in {"warning", "alert"}
             /\ \A b \in BucketTypes :
                   /\ plan.buckets[b].spent.baseAmount = 0
                   /\ \A c \in DOMAIN plan.buckets[b].categories :
                         plan.buckets[b].categories[c].spent = 0

\* a generateBudgetPlan call has just replaced a plan that had transactions
C1_Witness ==
    /\ lastCall.op = "generateBudgetPlan"
    /\ lastCall.existed
    /\ \E id \in DOMAIN transactions :
          /\ transactions[id].userId = lastCall.userId
          /\ transactions[id].budgetPlanId # lastCall.planId
    /\ Cardinality(StoredKeys) = 1

\* the calls that have returned for a key, and what they added to a bucket
\* and to a category of it
DoneCalls(key) ==
    {c \in Callers : calls[c].pc = "done"
                     /\ getPlanKey(calls[c].userId, calls[c].month) = key}

RECURSIVE SumOver(_, _)
SumOver(S, f) ==
    IF S = {} THEN 0
    ELSE LET x == CHOOSE y \in S : TRUE IN f[x] + SumOver(S \ {x}, f)

AddedToBucket(key, b) ==
    SumOver({c \in DoneCalls(key) : calls[c].bucket = b},
            [c \in Callers |-> calls[c].money[1].baseAmount])

AddedToCategory(key, b, cat) ==
    SumOver({c \in DoneCalls(key) : calls[c].bucket = b /\ calls[c].category = cat},
            [c \in Callers |-> IF calls[c].money = None THEN 0
                               ELSE calls[c].money[1].baseAmount])

\* C2: once two overlapping logTransaction calls for one key have both
\* returned, the plan stored under the key has the bucket spent and the
\* category spent equal to the sum of both normalized amounts.
C2_NoLostUpdate ==
    \A key \in StoredKeys :
       (Cardinality(DoneCalls(key)) = 2) =>
          \A b \in BucketTypes :
             /\ StoredPlan(key).buckets[b].spent.baseAmount = AddedToBucket(key, b)
             /\ \A cat \in DOMAIN StoredPlan(key).buckets[b].categories :
                   StoredPlan(key).buckets[b].categories[cat].spent
                      = AddedToCategory(key, b, cat)

\* C3: a category outside the plan's category list, created by
\* logTransaction with planned = 0, has status OVER whenever its spent is
\* positive.
C3_UnplannedCategoryAlwaysOver ==
    \A k \in StoredKeys : \A b \in BucketTypes :
       \A c \in DOMAIN StoredPlan(k).buckets[b].categories \ Range(DEFAULT_CATEGORIES[b]) :
          StoredPlan(k).buckets[b].categories[c].spent > 0
             => StoredPlan(k).buckets[b].categories[c].status = "OVER"

\* the plan a logTransaction call started from: the stored one, or the one
\* it synthesized (no insights, for empty incomes and debts)
InsightsBefore(key) ==
    IF key \in StoredKeys THEN StoredPlan(key).insights ELSE <<>>

\* C5: across a logTransaction call the stored insight list is the list
\* before the call followed by exactly the insights the call returned, and
\* no returned insight was in the list before.
C5_InsightsAppendOnly ==
    [][(lastCall'.n # lastCall.n /\ lastCall'.op = "logTransaction") =>
          LET key    == getPlanKey(lastCall'.userId, lastCall'.month)
              before == InsightsBefore(key)
              after  == plans'[budgetPlans'[key]].insights
          IN /\ after = before \o lastCall'.insights
             /\ \A i \in DOMAIN lastCall'.insights :
                   \A j \in DOMAIN before : lastCall'.insights[i].id # before[j].id]_vars

\* a logTransaction call returned an insight for a plan that already had one
C5_Witness ==
    /\ lastCall.op = "logTransaction"
    /\ lastCall.insights # <<>>
    /\ Len(StoredPlan(getPlanKey(lastCall.userId, lastCall.month)).insights)
          > Len(lastCall.insights)

CountWhere(seq, Test(_)) == Len(SelectSeq(seq, Test))

\* C6: the insights a logTransaction call returns are decided by the bucket
\* and category as the call leaves them: one bucket warning iff the bucket
\* is NEAR_LIMIT, one bucket alert iff it is OVER, one alert naming the
\* category iff the category is OVER, and nothing else.
C6_InsightsFromStateAfterCall ==
    lastCall.op = "logTransaction" =>
       LET plan == plans[lastCall.planId]
           bucketData == plan.buckets[lastCall.bucket]
           cat == bucketData.categories[lastCall.category]
           ins == lastCall.insights
           warnings == CountWhere(ins, LAMBDA i :
                          i.type = "warning" /\ i.bucket = Some(lastCall.bucket)
                          /\ i.category = None)
           alerts == CountWhere(ins, LAMBDA i :
                          i.type = "alert" /\ i.bucket = Some(lastCall.bucket)
                          /\ i.category = None)
           catAlerts == CountWhere(ins, LAMBDA i :
                          i.type = "alert" /\ i.bucket = Some(lastCall.bucket)
                          /\ i.category = Some(lastCall.category)
                          /\ i.message.arg = <<lastCall.category>>)
       IN /\ warnings = IF bucketData.status = "NEAR_LIMIT" THEN 1 ELSE 0
          /\ alerts = IF bucketData.status = "OVER" THEN 1 ELSE 0
          /\ catAlerts = IF cat.status = "OVER" THEN 1 ELSE 0
          /\ Len(ins) = warnings + alerts + catAlerts

\* a call left a category OVER that an earlier call had already reported,
\* and reported it again; its bucket is OVER too
C6_Witness ==
    /\ lastCall.op = "logTransaction"
    /\ LET plan == plans[lastCall.planId] IN
       /\ plan.buckets[lastCall.bucket].status = "OVER"
       /\ CountWhere(lastCall.insights,
                     LAMBDA i : i.category = Some(lastCall.category)) = 1
       /\ CountWhere(plan.insights,
                     LAMBDA i : i.category = Some(lastCall.category)) >= 2

\* the status rule as the claim words it, for planned # 0
StatusAsClaimed(spent, planned) ==
    IF planned = 0 THEN "UNDER"
    ELSE IF spent > planned THEN "OVER"
    ELSE IF 4 * planned <= 5 * spent /\ spent <= planned THEN "NEAR_LIMIT"
    ELSE "UNDER"

\* C7 as claimed: for every spent and planned a plan holds, the status is
\* OVER iff spent > planned, NEAR_LIMIT iff 0.8*planned <= spent <= planned,
\* UNDER otherwise, and UNDER when planned is 0.
C7_StatusRuleAsClaimed ==
    \A sp \in SpentPlannedPairs : calculateStatus(sp[1], sp[2]) = StatusAsClaimed(sp[1], sp[2])

\* C7 amended: the rule holds as claimed for planned > 0, the status is
\* UNDER for planned = 0, and for planned < 0 the comparisons turn around:
\* OVER iff spent < planned, NEAR_LIMIT iff planned <= spent <= 0.8*planned.
C7_StatusRule ==
    \A sp \in SpentPlannedPairs :
       LET spent == sp[1]
           planned == sp[2]
           status == calculateStatus(spent, planned)
       IN /\ status \in {"UNDER", "NEAR_LIMIT", "OVER"}
          /\ planned > 0 =>
                /\ status = "OVER" <=> spent > planned
                /\ status = "NEAR_LIMIT" <=> (4 * planned <= 5 * spent /\ spent <= planned)
          /\ planned = 0 => status = "UNDER"
          /\ planned < 0 =>
                /\ status = "OVER" <=> spent < planned
                /\ status = "NEAR_LIMIT" <=> (planned <= spent /\ 5 * spent <= 4 * planned)

\* a plan generated from negative income holds a category that is OVER
\* with spent below planned, and a bucket that is UNDER with spent above
\* planned
C7_Witness ==
    /\ \E sp \in SpentPlannedPairs : sp[2] < 0 /\ sp[1] < sp[2]
                                      /\ calculateStatus(sp[1], sp[2]) = "OVER"
    /\ \E sp \in SpentPlannedPairs : sp[2] < 0 /\ sp[1] > sp[2]
                                      /\ calculateStatus(sp[1], sp[2]) = "UNDER"

\* C4: a logTransaction call adds to the target bucket's spent and to the
\* named category's spent exactly amount * rate(transaction currency -> the
\* stored plan's baseCurrency), the rate being one fetchFxRate can return
\* for that pair in the state the call starts in.
C4_IncrementInPlanBaseCurrency ==
    [][(lastCall'.n # lastCall.n /\ lastCall'.op = "logTransaction") =>
          LET key    == getPlanKey(lastCall'.userId, lastCall'.month)
              bucket == lastCall'.bucket
              cat    == lastCall'.category
              stored == plans'[budgetPlans'[key]]
              before == IF key \in DOMAIN budgetPlans
                        THEN plans[budgetPlans[key]].buckets[bucket]
                        ELSE createBucket(bucket, 0, stored.baseCurrency,
                                          DEFAULT_CATEGORIES[bucket])
              catBefore == IF cat \in DOMAIN before.categories
                           THEN before.categories[cat].spent ELSE 0
          IN \E live \in ProviderAnswers :
                LET rate == fetchFxRate(fxRateCache, now, lastCall'.currency,
                                        stored.baseCurrency, live).fxRate.rate
                    normalized == (lastCall'.amount * rate) \div RateScale
                IN /\ stored.buckets[bucket].spent.baseAmount
                         - before.spent.baseAmount = normalized
                   /\ stored.buckets[bucket].categories[cat].spent
                         - catBefore = normalized]_vars

\* the plan the last generateBudgetPlan call returned, and its request
GeneratedPlan == plans[lastCall.planId]
DebtOf(debtId) == CHOOSE d \in Range(lastCall.debts) : d.id = debtId

AllocatedTotal ==
    SumSeq([i \in DOMAIN GeneratedPlan.debtsSnapshot |->
               GeneratedPlan.debtsSnapshot[i].allocatedPayment.baseAmount])

MinimumTotal ==
    SumSeq([i \in DOMAIN lastCall.debts |-> lastCall.debts[i].minMonthlyPayment])

\* C8: the allocated payments of a generated plan sum to at most
\* DEBT.planned, and when DEBT.planned equals the sum of the minimum
\* payments every debt receives exactly its minimum, isMinimumPayment true.
C8_DebtBudgetNotExceeded ==
    lastCall.op = "generateBudgetPlan" =>
       /\ AllocatedTotal <= GeneratedPlan.buckets["DEBT"].planned.baseAmount
       /\ GeneratedPlan.buckets["DEBT"].planned.baseAmount = MinimumTotal =>
             \A i \in DOMAIN GeneratedPlan.debtsSnapshot :
                LET snapshot == GeneratedPlan.debtsSnapshot[i] IN
                /\ snapshot.isMinimumPayment
                /\ snapshot.allocatedPayment.baseAmount
                      = DebtOf(snapshot.debtId).minMonthlyPayment

\* C9: every debt snapshot of a generated plan is allocated at least the
\* debt's minimum monthly payment.
C9_AtLeastMinimumPayment ==
    lastCall.op = "generateBudgetPlan" =>
       \A i \in DOMAIN GeneratedPlan.debtsSnapshot :
          GeneratedPlan.debtsSnapshot[i].allocatedPayment.baseAmount
             >= DebtOf(GeneratedPlan.debtsSnapshot[i].debtId).minMonthlyPayment

\* C10: a generated plan carries a warning on SAVINGS whenever the
\* percentage-derived savings are below totalIncome * minSavingsPercent / 100,
\* and an alert on DEBT whenever planned debt exceeds 40% of total income.
C10_FloorInsights ==
    lastCall.op = "generateBudgetPlan" =>
       LET totalIncome == totalIncomeBaseOf(lastCall.incomes)
           rules == lastCall.rules
           insights == GeneratedPlan.insights
       IN /\ totalIncome * rules.buckets.savings < totalIncome * rules.minSavingsPercent =>
                \E i \in DOMAIN insights :
                   insights[i].type = "warning" /\ insights[i].bucket = Some("SAVINGS")
          /\ 5 * GeneratedPlan.buckets["DEBT"].planned.baseAmount > 2 * totalIncome =>
                \E i \in DOMAIN insights :
                   insights[i].type = "alert" /\ insights[i].bucket = Some("DEBT")

\* C11: in every state of the FX cache, createMoney(amount, X, X) and the
\* fetchFxRate(X, X) call inside it return rate 1, and baseAmount == amount.
C11_SameCurrencyIdentity ==
    (lastCall.op = "createMoney" /\ lastCall.from = lastCall.to) =>
       /\ lastCall.fxRate.rate = RateScale
       /\ lastCall.money.fxRate = RateScale
       /\ lastCall.money.baseAmount = lastCall.amount

\* a lookup of from -> to starts in this step and returns without asking
\* the provider; it starts and suspends on the provider
LookupReturnsAtOnce(from, to) ==
    /\ lastCall'.n = lastCall.n + 1
    /\ lastCall'.op = "createMoney" /\ ~lastCall'.outbound
    /\ lastCall'.from = from /\ lastCall'.to = to
LookupAsksProvider(from, to) ==
    /\ calls[FxCaller].pc = "idle" /\ calls'[FxCaller].pc = "fetch"
    /\ calls'[FxCaller].currency = from /\ calls'[FxCaller].baseCurrency = to
    /\ UNCHANGED <<fxRateCache, lastCall>>

\* C12: a completed lookup of a pair from # to leaves an entry stamped with
\* the time of completion, whether the provider answered or failed; a lookup
\* of the pair started while the entry is less than 1 hour old returns that
\* entry (same rate and timestamp) with no outbound call and leaves the
\* cache as it is; a lookup started once the entry is 1 hour old makes one
\* outbound call, and its completion replaces the entry.
C12_CachedWithinTheHour ==
    [][\A pair \in FxPairs :
          LET from == pair[1]
              to   == pair[2]
              key  == getCacheKey(from, to)
          IN from # to =>
             /\ (calls[FxCaller].pc = "idle" /\ key \in DOMAIN fxRateCache
                   /\ (LookupReturnsAtOnce(from, to) \/ LookupAsksProvider(from, to))) =>
                   IF now - fxRateCache[key].timestamp < FreshnessMs
                   THEN /\ LookupReturnsAtOnce(from, to)
                        /\ lastCall'.fxRate = fxRateCache[key]
                        /\ fxRateCache' = fxRateCache
                   ELSE LookupAsksProvider(from, to)
             /\ (calls[FxCaller].pc = "idle" /\ key \notin DOMAIN fxRateCache) =>
                   ~LookupReturnsAtOnce(from, to)
             /\ (calls[FxCaller].pc = "fetch" /\ calls'[FxCaller].pc = "idle"
                   /\ calls[FxCaller].currency = from
                   /\ calls[FxCaller].baseCurrency = to) =>
                   /\ lastCall'.outbound
                   /\ key \in DOMAIN fxRateCache'
                   /\ fxRateCache'[key] = lastCall'.fxRate
                   /\ fxRateCache'[key].timestamp = now]_vars

\* the fallback rate a failed provider call left is served from the cache
\* half an hour later
C12_Witness ==
    /\ lastCall.op = "createMoney" /\ ~lastCall.outbound
    /\ lastCall.from = "USD" /\ lastCall.to = "AED"
    /\ lastCall.fxRate.rate = DEFAULT_RATES["USD_AED"]
    /\ now - lastCall.fxRate.timestamp = HalfHourMs

\* C13: whatever the provider does (it fails, or its payload lacks the
\* target currency), the lookup returns a rate: the default-table rate of
\* the pair when the table lists it, 1 otherwise.
C13_FallbackRate ==
    (lastCall.op = "createMoney" /\ lastCall.outbound
        /\ ~(lastCall.live.ok /\ lastCall.live.rate # 0)) =>
       LET key == getCacheKey(lastCall.from, lastCall.to) IN
       /\ lastCall.fxRate.rate =
             (IF key \in DOMAIN DEFAULT_RATES THEN DEFAULT_RATES[key] ELSE RateScale)
       /\ lastCall.money.baseAmount = (lastCall.amount * lastCall.fxRate.rate) \div RateScale

\* a failed provider call on the unlisted pair USD -> EUR, and a payload
\* without the target currency on the listed pair USD -> AED
C13_Witness ==
    /\ lastCall.op = "createMoney" /\ lastCall.outbound
    /\ \/ ~lastCall.live.ok /\ lastCall.to = "EUR" /\ lastCall.fxRate.rate = RateScale
       \/ lastCall.live.ok /\ lastCall.live.rate = 0 /\ lastCall.to = "AED"

\* the requests validation is to reject: POST /plan without userId or month
\* or with a month that is not YYYY-MM; POST /transactions without userId,
\* amount, category or bucket, or with a bucket outside the four
InvalidPlanBody(body) ==
    \/ body.userId = None \/ body.month = None
    \/ ~(/\ Len(body.month[1]) = 7
         /\ \A i \in {1, 2, 3, 4, 6, 7} : body.month[1][i] \in Range(Digits)
         /\ body.month[1][5] = "-")
InvalidTransactionBody(body) ==
    \/ body.userId = None \/ body.amount = None
    \/ body.category = None \/ body.bucket = None
    \/ body.bucket[1] \notin {"NEEDS", "WANTS", "SAVINGS", "DEBT"}

\* C14: a request that validation is to reject leaves the plan store, the
\* plans, the transaction store and the FX cache exactly as they were.
C14_RejectedRequestWritesNothing ==
    [][/\ \A body \in PlanBodies :
             (InvalidPlanBody(body) /\ PostPlan(body)) =>
                UNCHANGED <<budgetPlans, plans, transactions, fxRateCache>>
       /\ \A body \in TransactionBodies :
             (InvalidTransactionBody(body) /\ PostTransactions(body)) =>
                UNCHANGED <<budgetPlans, plans, transactions, fxRateCache>>]_vars

\* a request is rejected when a plan and a transaction are stored
C14_Witness ==
    /\ lastCall.op = "rejected"
    /\ budgetPlans # <<>> /\ transactions # <<>> /\ fxRateCache # <<>>

ReadOps ==
    {"getBudgetPlan", "getUserBudgetPlans", "getInsights", "getTransactions",
     "generateInsights"}

\* C15: a read entrypoint leaves the plan store, every stored plan and the
\* transaction store as they were; getBudgetPlan and getInsights on a key
\* without a plan report absence and create no plan, while logTransaction
\* on such a key stores one.
C15_ReadsWriteNothing ==
    [][lastCall'.n # lastCall.n =>
          LET key == getPlanKey(lastCall'.userId, lastCall'.month) IN
          /\ lastCall'.op \in ReadOps =>
                UNCHANGED <<budgetPlans, plans, transactions>>
          /\ (lastCall'.op \in {"getBudgetPlan", "getInsights"}
                /\ key \notin DOMAIN budgetPlans) =>
                (lastCall'.result = <<>> /\ key \notin DOMAIN budgetPlans')
          /\ (lastCall'.op = "logTransaction" /\ key \notin DOMAIN budgetPlans) =>
                key \in DOMAIN budgetPlans']_vars

\* generateInsights returned a list that is not the stored one, on a plan
\* that has insights of its own
C15_Witness ==
    /\ lastCall.op = "generateInsights"
    /\ lastCall.result # <<>>
    /\ plans[lastCall.planId].insights # <<>>
    /\ plans[lastCall.planId].insights # lastCall.result

C16_SynthesizedPlanReadsOver ==
    (lastCall.op = "logTransaction" /\ ~lastCall.existed) =>
       /\ \A b \in BucketTypes : plans[lastCall.planId].buckets[b].planned.baseAmount = 0
       /\ lastCall.amount > 0 =>
             plans[lastCall.planId].buckets[lastCall.bucket]
                .categories[lastCall.category].status = "OVER"

\* the sum of baseAmount over the active incomes of the request
ActiveIncome ==
    SumSeq([i \in DOMAIN lastCall.incomes |->
               IF lastCall.incomes[i].isActive THEN lastCall.incomes[i].baseAmount ELSE 0])

\* C17: the SAVINGS bucket of a generated plan has
\* planned >= totalIncome * minSavingsPercent / 100, totalIncome being the
\* sum over the active incomes only.
C17_SavingsFloor ==
    lastCall.op = "generateBudgetPlan" =>
       100 * GeneratedPlan.buckets["SAVINGS"].planned.baseAmount
          >= ActiveIncome * lastCall.rules.minSavingsPercent

\* the floor lifts a 5% savings rule to 10% of 6000, an inactive income of
\* 6000 left out
C17_Witness ==
    /\ lastCall.op = "generateBudgetPlan"
    /\ lastCall.rules.buckets.savings < lastCall.rules.minSavingsPercent
    /\ \E i \in DOMAIN lastCall.incomes : ~lastCall.incomes[i].isActive
    /\ ActiveIncome = 6000
    /\ GeneratedPlan.buckets["SAVINGS"].planned.baseAmount = 600

\* C18: the debt snapshots are ordered by interest rate, highest first,
\* under avalanche and by outstanding principal, lowest first, under
\* snowball, and they are a permutation of the debts of the request.
C18_DebtOrdering ==
    lastCall.op = "generateBudgetPlan" =>
       LET snapshots == GeneratedPlan.debtsSnapshot IN
       /\ \A i, j \in DOMAIN snapshots :
             i < j =>
                IF lastCall.rules.debtStrategy = "snowball"
                THEN snapshots[i].outstandingPrincipal <= snapshots[j].outstandingPrincipal
                ELSE DebtOf(snapshots[i].debtId).interestRateAnnual
                        >= DebtOf(snapshots[j].debtId).interestRateAnnual
       /\ Len(snapshots) = Len(lastCall.debts)
       /\ {snapshots[i].debtId : i \in DOMAIN snapshots}
             = {lastCall.debts[i].id : i \in DOMAIN lastCall.debts}
       /\ \A i \in DOMAIN snapshots :
             snapshots[i].outstandingPrincipal
                = DebtOf(snapshots[i].debtId).outstandingPrincipal

\* the sort moves the second debt of the request to the front, under
\* either strategy
C18_Witness ==
    /\ lastCall.op = "generateBudgetPlan"
    /\ Len(lastCall.debts) = MaxDebts
    /\ GeneratedPlan.debtsSnapshot[1].debtId = 2
    /\ lastCall.rules.debtStrategy = "avalanche"
    /\ DebtOf(1).interestRateAnnual < DebtOf(2).interestRateAnnual

\* C19: at most one debt snapshot of a generated plan has isMinimumPayment
\* false, and that one is the first of the list.
C19_OneSurplusDebt ==
    lastCall.op = "generateBudgetPlan" =>
       \A i \in DOMAIN GeneratedPlan.debtsSnapshot :
          ~GeneratedPlan.debtsSnapshot[i].isMinimumPayment => i = 1

\* two debts, the first takes the surplus, the second its minimum
C19_Witness ==
    /\ lastCall.op = "generateBudgetPlan"
    /\ Len(GeneratedPlan.debtsSnapshot) >= 2
    /\ ~GeneratedPlan.debtsSnapshot[1].isMinimumPayment
    /\ GeneratedPlan.debtsSnapshot[2].isMinimumPayment

\* C21: every bucket and every category of every stored plan, the
\* categories logTransaction added among them, has
\* remaining == planned - spent.
C21_RemainingIsPlannedMinusSpent ==
    \A key \in StoredKeys : \A b \in BucketTypes :
       LET bucket == StoredPlan(key).buckets[b] IN
       /\ bucket.remaining.baseAmount
             = bucket.planned.baseAmount - bucket.spent.baseAmount
       /\ \A name \in DOMAIN bucket.categories :
             bucket.categories[name].remaining
                = bucket.categories[name].planned - bucket.categories[name].spent

\* a plan with planned amounts, after transactions on a configured category
\* and on a category the plan did not have
C21_Witness ==
    \E key \in StoredKeys :
       LET bucket == StoredPlan(key).buckets["NEEDS"] IN
       /\ bucket.planned.baseAmount > 0
       /\ bucket.categories["groceries"].spent # 0
       /\ "gym" \in DOMAIN bucket.categories
       /\ bucket.categories["gym"].spent # 0

\* the transactions logged against bucket b of the plan with this id
TransactionsOf(planId, b) ==
    {id \in DOMAIN transactions :
        transactions[id].budgetPlanId = planId /\ transactions[id].bucket = b}

\* C24: in every stored plan each bucket's spent equals the sum of spent
\* over the bucket's categories, and the sum of the normalized amounts of
\* the transactions logged against the bucket since the plan was generated.
C24_BucketSpentIsTheSum ==
    \A key \in StoredKeys : \A b \in BucketTypes :
       LET bucket == StoredPlan(key).buckets[b] IN
       /\ bucket.spent.baseAmount
             = SumOver(DOMAIN bucket.categories,
                       [name \in DOMAIN bucket.categories |-> bucket.categories[name].spent])
       /\ bucket.spent.baseAmount
             = SumOver(TransactionsOf(StoredPlan(key).id, b),
                       [id \in DOMAIN transactions |-> transactions[id].money.baseAmount])

\* two transactions on one bucket, on different categories, one of them a
\* negative amount
C24_Witness ==
    \E key \in StoredKeys :
       LET ids == TransactionsOf(StoredPlan(key).id, "NEEDS") IN
       /\ Cardinality(ids) = 2
       /\ \E i, j \in ids :
             /\ transactions[i].category # transactions[j].category
             /\ transactions[i].money.baseAmount < 0
             /\ transactions[j].money.baseAmount > 0

\* the rescan returned an insight of this type on bucket b itself
BucketInsightOf(type, b) ==
    \E i \in DOMAIN lastCall.result :
       /\ lastCall.result[i].type = type
       /\ lastCall.result[i].bucket = Some(b)
       /\ lastCall.result[i].category = None

\* C22: generateInsights returns a bucket alert exactly for the buckets
\* whose stored status is OVER and a bucket warning exactly for the buckets
\* whose stored status is NEAR_LIMIT.
C22_RescanAgreesWithStatus ==
    lastCall.op = "generateInsights" =>
       \A b \in BucketTypes :
          /\ BucketInsightOf("alert", b) <=> plans[lastCall.planId].buckets[b].status = "OVER"
          /\ BucketInsightOf("warning", b)
                <=> plans[lastCall.planId].buckets[b].status = "NEAR_LIMIT"

\* C23: every stored transaction's budgetPlanId is the id of a plan that is
\* currently stored for the transaction's user, so getTransactions of the
\* current plan's id still returns it after the plan was regenerated.
C23_TransactionsFollowThePlan ==
    \A id \in DOMAIN transactions :
       \E key \in StoredKeys :
          /\ StoredPlan(key).userId = transactions[id].userId
          /\ StoredPlan(key).id = transactions[id].budgetPlanId
          /\ transactions[id] \in getTransactions(StoredPlan(key).id)

\* the strings four digits, "-", two digits, for the years the model can name
YearMonthStrings ==
    {ToString(year) \o "-" \o padStart(n) : year \in 1970 .. 2025, n \in 0 .. 99}

\* C25: every plan that POST /plan and POST /transactions put in the plan
\* store has a month of the form YYYY-MM, also when the date of a
\* transaction request does not parse.
C25_StoredMonthIsYearMonth ==
    \A key \in StoredKeys : StoredPlan(key).month \in YearMonthStrings

====
